---- MODULE Spec2Model ----
(***************************************************************************)
(* Automation dispatch policies of crates/control/src/automations:         *)
(* one run loop (single, queued, cancel or parallel) consuming one trigger *)
(* stream and invoking one action.                                         *)
(*                                                                         *)
(* Triggers are numbered 1, 2, 3, ... in the order the stream makes them   *)
(* available.  An invocation is a future: it makes progress only when the  *)
(* run loop polls it, it may suspend ("pending") until the event it waits  *)
(* for fires (Wake), and it resolves with Ok or Err.                       *)
(***************************************************************************)
EXTENDS Naturals, Sequences, FiniteSets

\* ---- bounds of the model ------------------------------------------------
MaxTriggers == 3
MaxPolls == 2
MaxParallelBound == 2
MaxDepth == 2
MaxNodes == 5
NumAutos == 2
MaxRunTriggers == 2
NumValues == 2
MaxItems == 3
MaxCount == 2
MaxEvents == 4
NumTypes == 2
MaxAdds == 3
MaxStartTriggers == 2
MaxTasks == 3
NumWorkers == 2
MaxJobs == 2
MaxJobPolls == 2
NumLetters == 2
MaxNameLen == 2
MaxSubs == 2
MaxPublishes == 2

\* ---- state --------------------------------------------------------------
VARIABLES
    policy,        \* which constructor built the run loop
    max_parallel,  \* Parallel::max_parallel
    buf,           \* items the trigger stream can yield now, oldest first
    emitted,       \* number of triggers the stream has made available
    closed,        \* the producer side of the stream is gone
    terminated,    \* the stream has yielded end-of-stream (is_terminated)
    pc,            \* suspension point of the run loop
    cur,           \* invocation held by single / queued / cancel
    running,       \* ParallelFuture::running
    count,         \* ParallelFuture::count
    passed,        \* triggers handed to automation.run, in call order
    results,       \* resolved invocations, in order of resolution
    cancelled,     \* invocations dropped before resolving
    drained,       \* triggers consumed without being dispatched
    steps,         \* per trigger: polls in which its invocation ran
    arr,           \* per trigger: the run loop's state when it arrived
    polled,        \* ParallelFuture::poll has run since the last stream event
    afterEnd,      \* what the stream does when polled after end-of-stream
    \* -- AutomationSet (automations.rs, macros-impl/automation_set.rs)
    aset,          \* the automation set
    given,         \* the vector handed to futures(), as it was before the call
    futures,       \* the vector handed to futures()
    sized,         \* what size() returned
    calls,         \* which of size() and futures() have been called
    \* -- run_automations (automations.rs) and Manager::start (manager.rs)
    runner,        \* which of the two runs the automations
    panicMode,     \* where the executor raises a task's panic
    remitted,      \* per automation: number of triggers its stream was given
    rclosed,       \* per automation: the stream's producer closed it
    rtaken,         \* per automation: number of triggers taken off the stream
    loops,         \* per automation: where its run loop / job stream is
    job,           \* per automation and trigger: state of the invocation
    ex,            \* the call itself: running, returned or panicked
    awaiting,      \* index of the task the main future of run_automations awaits
    \* -- StreamCustomExt::filter_changes (lib.rs)
    cin,           \* items the underlying stream can yield now, oldest first
    cemitted,      \* number of items the underlying stream was given
    cclosed,       \* the underlying stream's producer closed it
    cended,        \* the underlying stream has yielded end-of-stream
    ctaken,        \* items the underlying stream has yielded, in order
    last_item,     \* Changes::last_item, 0 for None
    cout,          \* what Changes::poll_next returned when ready, 0 for None
    \* -- StreamCustomExt::count_presses (button.rs)
    bmax,          \* the const MAX of ButtonPressStream
    bovf,          \* what RangedU8's `+=` does when the sum leaves 1..=MAX
    bclosed,       \* the button's event stream was closed by its producer
    bemitted,      \* number of events the button's stream was given
    btn,           \* ButtonPressStream with its input and what it has returned
    \* -- ManagerBuilder and Manager::start (crates/control/src/manager.rs)
    mphase,        \* builder, built, devices, loop or returned
    adds,          \* types passed to add_device_manager, in call order
    device_managers, \* Manager::device_managers, by type (0 is `()`)
    started,       \* device managers whose start() was called, in call order
    token,         \* the CancellationToken is cancelled
    listener,      \* the spawned signal listener task
    sigOk,         \* whether registering a signal handler succeeds
    delivered,     \* signals the process has received
    seen,          \* signals whose recv() has completed in the listener
    sbuf,          \* jobs the automations' streams can yield now
    semitted,      \* number of triggers that have fired
    sopen,         \* some trigger stream is still open
    dispatched,    \* number of jobs spawned
    unfinished,    \* number of spawned jobs that have not finished
    \* -- Manager::start of the top-level crate (src/lib.rs)
    feature,       \* the executor feature the crate is built with
    tsigOk,        \* whether Signals::new succeeds
    tphase,        \* start, waiting (for the signal), select, resolved, panicked
    ttasks,        \* per run-loop task: job, cancelled, running or finished
    tsignal,       \* a termination signal has been received
    ttimer,        \* the grace timer: none, running or fired
    tpolled,       \* the returned future was polled since the last event
    \* -- ThreadPool (src/threads.rs)
    requests,      \* the jobs in the request channel, oldest first
    reqOpen,       \* the pool still holds the request channel's sender
    abort,         \* the abort flag
    late,          \* cancel's deadline has passed
    cphase,        \* cancel: idle (not called), waiting, joining, returned
    handles,       \* cancel's `handles`: the workers not yet joined
    wpc,           \* per worker: top (of the loop), body, exited
    wrecv,         \* per worker: what its last requests.try_recv() returned
    runq,          \* per worker: the runnables in its local channel
    jobs,          \* per job: state, owning worker, polls, Task held in `tasks`
    sent,          \* number of jobs given to execute
    \* -- zigbee Manager (crates/zigbee/src/lib.rs)
    subscriptions, \* Manager::subscriptions: the subscribed topics, in order
    zstarted,      \* start() has been called
    zsent,         \* number of publishes the broker has delivered
    zrecv          \* per subscription: the topics of the publishes sent to it

policyVars == <<policy, max_parallel, buf, emitted, closed, terminated, pc, cur,
          running, count, passed, results, cancelled, drained, steps, arr,
          polled, afterEnd>>

setVars == <<aset, given, futures, sized, calls>>

\* the variables of the other specifications of this module
runVars == <<runner, panicMode, remitted, rclosed, rtaken, loops, job, ex, awaiting>>

chgVars == <<cin, cemitted, cclosed, cended, ctaken, last_item, cout>>

btnVars == <<bmax, bovf, bclosed, bemitted, btn>>

mgrVars == <<mphase, adds, device_managers, started, token, listener, sigOk,
            delivered, seen, sbuf, semitted, sopen, dispatched, unfinished>>

topVars == <<feature, tsigOk, tphase, ttasks, tsignal, ttimer, tpolled>>

poolVars == <<requests, reqOpen, abort, late, cphase, handles, wpc, wrecv, runq,
             jobs, sent>>

zbVars == <<subscriptions, zstarted, zsent, zrecv>>

outside == <<setVars, runVars, chgVars, btnVars, mgrVars, topVars, poolVars, zbVars>>

outsideSet == <<policyVars, runVars, chgVars, btnVars, mgrVars, topVars, poolVars, zbVars>>

outsideRun == <<policyVars, setVars, chgVars, btnVars, mgrVars, topVars, poolVars, zbVars>>

outsideChg == <<policyVars, setVars, runVars, btnVars, mgrVars, topVars, poolVars, zbVars>>

outsideBtn == <<policyVars, setVars, runVars, chgVars, mgrVars, topVars, poolVars, zbVars>>

outsideMgr == <<policyVars, setVars, runVars, chgVars, btnVars, topVars, poolVars, zbVars>>

outsideTop == <<policyVars, setVars, runVars, chgVars, btnVars, mgrVars, poolVars, zbVars>>

outsidePool == <<policyVars, setVars, runVars, chgVars, btnVars, mgrVars, topVars, zbVars>>

outsideZb == <<policyVars, setVars, runVars, chgVars, btnVars, mgrVars, topVars, poolVars>>

vars == <<policyVars, setVars, runVars, chgVars, btnVars, mgrVars, topVars, poolVars, zbVars>>

\* no thread pool has been created
PoolParked ==
    /\ requests = << >>
    /\ reqOpen = FALSE
    /\ abort = FALSE
    /\ late = FALSE
    /\ cphase = "none"
    /\ handles = << >>
    /\ wpc = << >>
    /\ wrecv = << >>
    /\ runq = << >>
    /\ jobs = << >>
    /\ sent = 0

\* no zigbee Manager has been created
ZbParked ==
    /\ subscriptions = << >>
    /\ zstarted = FALSE
    /\ zsent = 0
    /\ zrecv = << >>

\* the top-level Manager is not started
TopParked ==
    /\ feature = "none"
    /\ tsigOk = TRUE
    /\ tphase = "none"
    /\ ttasks = << >>
    /\ tsignal = FALSE
    /\ ttimer = "none"
    /\ tpolled = FALSE

\* no Manager is being built or started
MgrParked ==
    /\ mphase = "none"
    /\ adds = << >>
    /\ device_managers = << >>
    /\ started = << >>
    /\ token = FALSE
    /\ listener = "none"
    /\ sigOk = TRUE
    /\ delivered = {}
    /\ seen = {}
    /\ sbuf = 0
    /\ semitted = 0
    /\ sopen = FALSE
    /\ dispatched = 0
    /\ unfinished = 0

\* no count_presses stream exists
BtnParked ==
    /\ bmax = 0
    /\ bovf = "none"
    /\ bclosed = TRUE
    /\ bemitted = 0
    /\ btn = << >>

\* no filter_changes stream exists
ChgParked ==
    /\ cin = << >>
    /\ cemitted = 0
    /\ cclosed = TRUE
    /\ cended = TRUE
    /\ ctaken = << >>
    /\ last_item = 0
    /\ cout = << >>

\* no set of automations is being run
RunParked ==
    /\ runner = "none"
    /\ panicMode = "caller"
    /\ remitted = << >>
    /\ rclosed = << >>
    /\ rtaken = << >>
    /\ loops = << >>
    /\ job = << >>
    /\ ex = "none"
    /\ awaiting = 0

\* no automation set is under construction
SetParked ==
    /\ aset = [kind |-> "none", items |-> << >>]
    /\ given = << >>
    /\ futures = << >>
    /\ sized = 0
    /\ calls = {}

\* no policy run loop exists
PolicyParked ==
    /\ policy = "none"
    /\ max_parallel = 0
    /\ buf = << >>
    /\ emitted = 0
    /\ closed = FALSE
    /\ terminated = FALSE
    /\ pc = "none"
    /\ cur = [trig |-> 0, st |-> "none"]
    /\ running = << >>
    /\ count = 0
    /\ passed = << >>
    /\ results = << >>
    /\ cancelled = {}
    /\ drained = {}
    /\ steps = << >>
    /\ arr = << >>
    /\ polled = FALSE
    /\ afterEnd = "end"

Policies == {"single", "queued", "cancel", "parallel"}

Triggers == 1..MaxTriggers

\* Option::None for an invocation slot
None == [trig |-> 0, st |-> "none"]

\* automation.run(trigger): a fresh future, not yet polled
Invocation(t) == [trig |-> t, st |-> "runnable"]

NoArrival == [pc |-> "none", ahead |-> 0, cur |-> None, resolved |-> 0]

\* Vec::with_capacity(max) reserves memory and holds no element
InitRunningOffByOne(max) == [i \in 1..(max + 1) |-> None]

InitRunning(max) == << >>

\* triggers whose invocation resolved
Completed == {results[i].trig : i \in 1..Len(results)}

Failed == {results[i].trig : i \in {j \in 1..Len(results) : results[j].res = "err"}}

PassedSet == {passed[i] : i \in 1..Len(passed)}

\* number of occupied slots of `running`
InFlight == Cardinality({i \in 1..Len(running) : running[i] # None})

\* what polling a runnable invocation of trigger t can return
PollOutcomes(t) ==
    {"ok", "err"} \cup (IF steps[t] + 1 < MaxPolls THEN {"pending"} ELSE {})

\* Stream::poll_next on a stream that has not yet yielded end-of-stream
StreamPoll ==
    IF buf # << >> THEN "item" ELSE IF closed THEN "end" ELSE "pending"

\* what a stream may do when polled again after end-of-stream: the Stream
\* contract leaves it open (yield the end again, stay pending, or panic)
AfterEnds == {"end", "pending", "panic"}

\* Stream::poll_next
PollNext ==
    IF terminated THEN {afterEnd} ELSE {StreamPoll}

Init ==
    /\ policy \in Policies
    /\ max_parallel \in (IF policy = "parallel" THEN 0..MaxParallelBound ELSE {0})
    /\ buf = << >>
    /\ emitted = 0
    /\ terminated \in (IF policy = "parallel" THEN BOOLEAN ELSE {FALSE})
    /\ closed = terminated
    /\ pc = (IF policy = "parallel" THEN "poll" ELSE "next")
    /\ cur = None
    /\ running = InitRunning(max_parallel)
    /\ count = 0
    /\ passed = << >>
    /\ results = << >>
    /\ cancelled = {}
    /\ drained = {}
    /\ steps = [t \in Triggers |-> 0]
    /\ arr = [t \in Triggers |-> NoArrival]
    /\ polled = FALSE
    /\ afterEnd \in (IF policy = "single" THEN AfterEnds ELSE {"end"})
    /\ SetParked
    /\ RunParked
    /\ ChgParked
    /\ BtnParked
    /\ MgrParked
    /\ TopParked
    /\ PoolParked
    /\ ZbParked

\* ---- environment --------------------------------------------------------

\* the trigger stream gets a new item
Emit ==
    /\ ~closed
    /\ emitted < MaxTriggers
    /\ emitted' = emitted + 1
    /\ buf' = Append(buf, emitted + 1)
    /\ arr' = [arr EXCEPT ![emitted + 1] =
                 [pc |-> pc, ahead |-> Len(buf), cur |-> cur,
                  resolved |-> Len(results)]]
    /\ polled' = FALSE
    /\ UNCHANGED <<outside, afterEnd, policy, max_parallel, closed, terminated, pc, cur, running,
                   count, passed, results, cancelled, drained, steps>>

\* the trigger stream is closed by its producer
Close ==
    /\ ~closed
    /\ closed' = TRUE
    /\ polled' = FALSE
    /\ UNCHANGED <<outside, afterEnd, policy, max_parallel, buf, emitted, terminated, pc, cur,
                   running, count, passed, results, cancelled, drained, steps,
                   arr>>

\* the event a suspended invocation waits for fires (handle 0 is `cur`)
Wake ==
    \E h \in 0..Len(running) :
        /\ (IF h = 0 THEN cur.st ELSE running[h].st) = "pending"
        /\ cur' = (IF h = 0 THEN [cur EXCEPT !.st = "runnable"] ELSE cur)
        /\ running' = (IF h = 0 THEN running
                       ELSE [running EXCEPT ![h].st = "runnable"])
        /\ polled' = FALSE
        /\ UNCHANGED <<outside, afterEnd, policy, max_parallel, buf, emitted, closed, terminated,
                       pc, count, passed, results, cancelled, drained, steps,
                       arr>>

\* ---- single (automations/single.rs) --------------------------------------

\* where Single::run goes once the invocation has resolved with `res`:
\* both arms of the `if let Err` only log and fall through to the drain
SingleAfterErrReturns(res) == IF res = "err" THEN "done" ELSE "drain"

SingleAfter(res) == "drain"

\* `poll_immediate(self.input.next()).await.is_some()`: Some(Some(item)) and
\* Some(None) are both `Some`, only a pending stream gives None
DrainNever(r) == FALSE

DrainContinues(r) == r \in {"item", "end"}

\* where Single::run goes once `self.input.next().await` has yielded r:
\* Some(trigger) is run, None returns
SingleTakenSkipsRun(r) ==
    CASE r = "item" -> "drain" [] r = "end" -> "done" [] r = "panic" -> "panicked"

SingleTaken(r) ==
    CASE r = "item" -> "run" [] r = "end" -> "done" [] r = "panic" -> "panicked"

\* `let Some(trigger) = self.input.next().await else { return }` and the
\* call of `self.automation.run(trigger)`
SingleNext ==
    /\ policy = "single"
    /\ pc = "next"
    /\ \E r \in PollNext \ {"pending"} :
        /\ pc' = SingleTaken(r)
        /\ buf' = (IF r = "item" THEN Tail(buf) ELSE buf)
        /\ passed' = (IF pc' = "run" THEN Append(passed, Head(buf)) ELSE passed)
        /\ cur' = (IF pc' = "run" THEN Invocation(Head(buf)) ELSE cur)
        /\ drained' = (IF r = "item" /\ pc' # "run"
                       THEN drained \cup {Head(buf)} ELSE drained)
        /\ terminated' = (terminated \/ r = "end")
    /\ UNCHANGED <<outside, afterEnd, policy, max_parallel, emitted, closed, running, count,
                   results, cancelled, steps, arr, polled>>

\* `self.automation.run(trigger).await`: one poll of the invocation
SingleRun ==
    /\ policy = "single"
    /\ pc = "run"
    /\ cur.st = "runnable"
    /\ \E o \in PollOutcomes(cur.trig) :
        /\ steps' = [steps EXCEPT ![cur.trig] = @ + 1]
        /\ cur' = (IF o = "pending" THEN [cur EXCEPT !.st = "pending"] ELSE None)
        /\ results' = (IF o = "pending" THEN results
                       ELSE Append(results, [trig |-> cur.trig, res |-> o]))
        /\ pc' = (IF o = "pending" THEN pc ELSE SingleAfter(o))
    /\ UNCHANGED <<outside, afterEnd, policy, max_parallel, buf, emitted, closed, terminated,
                   running, count, passed, cancelled, drained, arr, polled>>

\* one iteration of `while poll_immediate(self.input.next()).await.is_some()`
SingleDrain ==
    /\ policy = "single"
    /\ pc = "drain"
    /\ \E r \in PollNext :
        /\ pc' = (IF r = "panic" THEN "panicked"
                  ELSE IF DrainContinues(r) THEN "drain" ELSE "next")
        /\ buf' = (IF r = "item" /\ DrainContinues(r) THEN Tail(buf) ELSE buf)
        /\ drained' = (IF r = "item" /\ DrainContinues(r)
                       THEN drained \cup {Head(buf)} ELSE drained)
        /\ terminated' = (terminated \/ r = "end")
    /\ UNCHANGED <<outside, afterEnd, policy, max_parallel, emitted, closed, cur, running, count,
                   passed, results, cancelled, steps, arr, polled>>

\* ---- queued (automations/queued.rs) --------------------------------------

\* which buffered item `self.input.next()` hands to the loop: the oldest
NextItemNewest(b) == b[Len(b)]

NextItem(b) == Head(b)

\* what stays on the stream once `self.input.next()` has yielded an item
RestNothing(b) == << >>

Rest(b) == Tail(b)

\* where Queued::run goes once the invocation has resolved with `res`
QueuedAfterErrReturns(res) == IF res = "err" THEN "done" ELSE "next"

QueuedAfter(res) == "next"

\* where Queued::run is while the invocation it awaits is pending: the
\* `.await` keeps the loop inside the body
QueuedWhilePendingTakesNext == "next"

QueuedWhilePending == "run"

\* `while let Some(trigger) = self.input.next().await`
QueuedNext ==
    /\ policy = "queued"
    /\ pc = "next"
    /\ \E r \in PollNext \ {"pending"} :
        /\ pc' = (CASE r = "item" -> "run"
                    [] r = "end" -> "done"
                    [] r = "panic" -> "panicked")
        /\ buf' = (IF r = "item" THEN Rest(buf) ELSE buf)
        /\ passed' = (IF r = "item" THEN Append(passed, NextItem(buf)) ELSE passed)
        /\ cur' = (IF r = "item" THEN Invocation(NextItem(buf)) ELSE cur)
        /\ terminated' = (terminated \/ r = "end")
    /\ UNCHANGED <<outside, afterEnd, policy, max_parallel, emitted, closed, running, count,
                   results, cancelled, drained, steps, arr, polled>>

\* `self.automation.run(trigger).await`: one poll of the invocation
QueuedRun ==
    /\ policy = "queued"
    /\ pc = "run"
    /\ cur.st = "runnable"
    /\ \E o \in PollOutcomes(cur.trig) :
        /\ steps' = [steps EXCEPT ![cur.trig] = @ + 1]
        /\ cur' = (IF o = "pending" THEN [cur EXCEPT !.st = "pending"] ELSE None)
        /\ results' = (IF o = "pending" THEN results
                       ELSE Append(results, [trig |-> cur.trig, res |-> o]))
        /\ pc' = (IF o = "pending" THEN QueuedWhilePending ELSE QueuedAfter(o))
    /\ UNCHANGED <<outside, afterEnd, policy, max_parallel, buf, emitted, closed, terminated,
                   running, count, passed, cancelled, drained, arr, polled>>

\* ---- cancel (automations/cancel.rs) --------------------------------------

\* where Cancel::run goes once `current` has resolved with `res`: both arms of
\* the `if let Err` only log, then the arm awaits `self.input.next()`
CancelAfterErrReturns(res) == IF res = "err" THEN "done" ELSE "next"

CancelAfter(res) == "next"

\* what becomes of `current` when the `self.input.next()` arm of the select
\* wins: the loop iteration ends and the pinned future is dropped unresolved
Superseded(c) == [cancelled |-> {c.trig}, results |-> << >>]

\* `self.input.next().await` (before the loop and in the first select arm),
\* then the top of the loop: return on None, else create `current`
CancelNext ==
    /\ policy = "cancel"
    /\ pc = "next"
    /\ \E r \in PollNext \ {"pending"} :
        /\ pc' = (CASE r = "item" -> "select"
                    [] r = "end" -> "done"
                    [] r = "panic" -> "panicked")
        /\ buf' = (IF r = "item" THEN Tail(buf) ELSE buf)
        /\ passed' = (IF r = "item" THEN Append(passed, Head(buf)) ELSE passed)
        /\ cur' = (IF r = "item" THEN Invocation(Head(buf)) ELSE cur)
        /\ terminated' = (terminated \/ r = "end")
    /\ UNCHANGED <<outside, afterEnd, policy, max_parallel, emitted, closed, running, count,
                   results, cancelled, drained, steps, arr, polled>>

\* one poll of `select_biased! { result = current => .., next = self.input.next() => next }`
\* followed, when the second arm wins, by the top of the loop
CancelSelect ==
    /\ policy = "cancel"
    /\ pc = "select"
    /\ \E o \in (IF cur.st = "runnable" THEN PollOutcomes(cur.trig) ELSE {"pending"}) :
       \E r \in PollNext :
        LET first == o # "pending"
            sup == Superseded(cur)
            taken == ~first /\ r \in {"item", "end"}
        IN
        /\ r # "panic"
        /\ steps' = (IF cur.st = "runnable"
                     THEN [steps EXCEPT ![cur.trig] = @ + 1] ELSE steps)
        /\ results' = (IF first THEN Append(results, [trig |-> cur.trig, res |-> o])
                       ELSE IF taken THEN results \o sup.results
                       ELSE results)
        /\ cancelled' = (IF taken THEN cancelled \cup sup.cancelled ELSE cancelled)
        /\ pc' = (IF first THEN CancelAfter(o)
                  ELSE IF r = "end" THEN "done" ELSE "select")
        /\ cur' = (IF first \/ r = "end" THEN None
                   ELSE IF r = "item" THEN Invocation(Head(buf))
                   ELSE [cur EXCEPT !.st = "pending"])
        /\ buf' = (IF ~first /\ r = "item" THEN Tail(buf) ELSE buf)
        /\ passed' = (IF ~first /\ r = "item" THEN Append(passed, Head(buf))
                      ELSE passed)
        /\ terminated' = (terminated \/ (~first /\ r = "end"))
    /\ UNCHANGED <<outside, afterEnd, policy, max_parallel, emitted, closed, running, count,
                   drained, arr, polled>>

\* ---- parallel (automations/parallel.rs) ----------------------------------

\* the resolved invocations of one pass over `running`, in slot order
Finished(run, out) ==
    LET RECURSIVE F(_)
        F(i) == IF i > Len(run) THEN << >>
                ELSE (IF out[i] \in {"ok", "err"}
                      THEN <<[trig |-> run[i].trig, res |-> out[i]]>>
                      ELSE << >>) \o F(i + 1)
    IN F(1)

\* ParallelFuture::poll
ParallelPoll ==
    /\ policy = "parallel"
    /\ pc = "poll"
    /\ LET polls == ~terminated /\ count < Len(running)
           r == IF polls THEN StreamPoll ELSE "skipped"
           admit == r = "item"
           run1 == IF admit THEN [running EXCEPT ![1] = Invocation(Head(buf))]
                   ELSE running
           lost == IF admit /\ running[1] # None THEN {running[1].trig} ELSE {}
           count1 == IF admit THEN count + 1 ELSE count
           term1 == terminated \/ r = "end"
       IN
       \E out \in [1..Len(run1) -> {"ok", "err", "pending"}] :
        LET done == {i \in 1..Len(run1) : out[i] # "pending"}
            count2 == count1 - Cardinality(done)
        IN
        /\ \A i \in 1..Len(run1) :
              out[i] \in (IF run1[i].st = "runnable"
                          THEN PollOutcomes(run1[i].trig) ELSE {"pending"})
        /\ buf' = (IF admit THEN Tail(buf) ELSE buf)
        /\ passed' = (IF admit THEN Append(passed, Head(buf)) ELSE passed)
        /\ cancelled' = cancelled \cup lost
        /\ terminated' = term1
        /\ running' = [i \in 1..Len(run1) |->
                         IF i \in done THEN None
                         ELSE IF run1[i] = None THEN None
                         ELSE [run1[i] EXCEPT !.st = "pending"]]
        /\ steps' = [t \in Triggers |->
                       IF \E i \in 1..Len(run1) :
                             run1[i].trig = t /\ run1[i].st = "runnable"
                       THEN steps[t] + 1 ELSE steps[t]]
        /\ results' = results \o Finished(run1, out)
        /\ count' = count2
        /\ pc' = (IF term1 /\ count2 = 0 THEN "done" ELSE "poll")
        /\ polled' = TRUE
    /\ UNCHANGED <<outside, afterEnd, policy, max_parallel, emitted, closed, cur, drained, arr>>

\* ---- specification -------------------------------------------------------

Next ==
    \/ Emit
    \/ Close
    \/ Wake
    \/ SingleNext
    \/ SingleRun
    \/ SingleDrain
    \/ QueuedNext
    \/ QueuedRun
    \/ CancelNext
    \/ CancelSelect
    \/ ParallelPoll

Spec == Init /\ [][Next]_vars

\* The executor polls a run loop that can make progress, and the event a
\* suspended invocation waits for eventually fires.
FairSpec ==
    /\ Spec
    /\ WF_vars(Wake)
    /\ WF_vars(SingleNext) /\ WF_vars(SingleRun) /\ WF_vars(SingleDrain)
    /\ WF_vars(QueuedNext) /\ WF_vars(QueuedRun)
    /\ WF_vars(CancelNext) /\ WF_vars(CancelSelect)
    /\ WF_vars(ParallelPoll)

\* ---- AutomationSet (automations.rs, macros-impl/automation_set.rs) -------

\* `impl AutomationSet for A: Automation`: one run loop
Automation == [kind |-> "automation", items |-> << >>]

\* `impl AutomationSet for (A1, .., An)`, generated for n = 1..21
TupleSet(items) == [kind |-> "tuple", items |-> items]

\* `impl AutomationSet for Vec<Box<dyn AutomationSet>>`
VecSet(items) == [kind |-> "vec", items |-> items]

\* number of sets a set is made of, itself included
RECURSIVE Nodes(_)
Nodes(s) ==
    LET RECURSIVE Sum(_)
        Sum(i) == IF i > Len(s.items) THEN 0 ELSE Nodes(s.items[i]) + Sum(i + 1)
    IN 1 + Sum(1)

\* the automation sets of nesting depth at most d made of at most n sets, and
\* the sequences of such sets made of at most n sets in all
RECURSIVE SetsOfDepth(_, _), Forests(_, _)
SetsOfDepth(d, n) ==
    IF n = 0 THEN {}
    ELSE {Automation} \cup
         (IF d = 0 THEN {}
          ELSE LET fs == Forests(d - 1, n - 1)
               IN {TupleSet(f) : f \in fs \ {<< >>}} \cup {VecSet(f) : f \in fs})

Forests(d, n) ==
    {<< >>} \cup
    UNION {{<<t>> \o f : f \in Forests(d, n - Nodes(t))} : t \in SetsOfDepth(d, n)}

RECURSIVE SumSeq(_)
SumSeq(q) == IF q = << >> THEN 0 ELSE Head(q) + SumSeq(Tail(q))

\* tuple size(): `let mut count = 0; count += self.i.size(); ..; count`
SizeTuple(sizes) == SumSeq(sizes)

\* Vec size(): `self.iter().map(|set| set.size()).sum()`
SizeVecCountsChildren(sizes) == Len(sizes)

SizeVec(sizes) == SumSeq(sizes)

\* AutomationSet::size
RECURSIVE Size(_)
Size(s) ==
    LET sizes == [i \in 1..Len(s.items) |-> Size(s.items[i])]
    IN CASE s.kind = "automation" -> 1
         [] s.kind = "tuple" -> SizeTuple(sizes)
         [] s.kind = "vec" -> SizeVec(sizes)

\* the order in which a tuple's futures() visits its n fields: self.0, self.1, ..
TupleOrder(n) == [i \in 1..n |-> i]

\* the order in which the Vec's futures() visits its n elements: `for set in self`
VecOrderReversed(n) == [i \in 1..n |-> n + 1 - i]

VecOrder(n) == [i \in 1..n |-> i]

\* AutomationSet::futures: the set at `path` pushes its run-loop tasks onto
\* `acc`; a task is named by the path of the automation whose run() made it
RECURSIVE Futures(_, _, _)
Futures(s, path, acc) ==
    LET order == IF s.kind = "tuple" THEN TupleOrder(Len(s.items))
                 ELSE VecOrder(Len(s.items))
        RECURSIVE Visit(_, _)
        Visit(k, a) ==
            IF k > Len(order) THEN a
            ELSE Visit(k + 1,
                       Futures(s.items[order[k]], Append(path, order[k]), a))
    IN IF s.kind = "automation" THEN Append(acc, path) ELSE Visit(1, acc)

InitSet ==
    /\ aset \in SetsOfDepth(MaxDepth, MaxNodes)
    /\ given \in {<< >>, << <<0>> >>}
    /\ futures = given
    /\ sized = 0
    /\ calls = {}
    /\ PolicyParked
    /\ RunParked
    /\ ChgParked
    /\ BtnParked
    /\ MgrParked
    /\ TopParked
    /\ PoolParked
    /\ ZbParked

\* `automations.size()`
CallSize ==
    /\ aset.kind # "none"
    /\ "size" \notin calls
    /\ sized' = Size(aset)
    /\ calls' = calls \cup {"size"}
    /\ UNCHANGED <<outsideSet, aset, given, futures>>

\* `automations.futures(&mut futures)`
CallFutures ==
    /\ aset.kind # "none"
    /\ "futures" \notin calls
    /\ futures' = Futures(aset, << >>, futures)
    /\ calls' = calls \cup {"futures"}
    /\ UNCHANGED <<outsideSet, aset, given, sized>>

NextSet ==
    \/ CallSize
    \/ CallFutures

SpecSet == InitSet /\ [][NextSet]_vars

\* ---- run_automations (automations.rs) and Manager::start (manager.rs) ----

Autos == 1..NumAutos

RunTriggers == 1..MaxRunTriggers

\* an invocation is polled for the first time ("runnable") or after the event
\* it waited for ("resumed"); it suspends at most once
Pollable == {"runnable", "resumed"}

Unfinished == {"runnable", "pending", "resumed"}

\* what polling an invocation can do: return (Ok and Err are alike to the
\* run loop and to the job), panic, or suspend
PollJob(st) == {"ok", "panic"} \cup (IF st = "runnable" THEN {"pending"} ELSE {})

\* which ready tasks the executor may poll: any of them, whatever the other
\* tasks are waiting for
ExecutorPollsInTurn(a) == \A b \in Autos \ {a} : \A t \in RunTriggers : job[b][t] # "pending"

ExecutorPolls(a) == TRUE

\* the number of tasks the main future of run_automations awaits, one after
\* the other: `for task in tasks { task.await }`
TasksAwaitedFirstOnly == NumAutos - 1

TasksAwaited == NumAutos

\* Manager::start after a job has panicked: the `catch_unwind` around the job
\* turns the panic into an Err that is logged
MgrAfterPanicUncaught == "panicked"

MgrAfterPanic == "running"

InitRun ==
    /\ runner \in {"run_automations", "manager"}
    /\ panicMode \in (IF runner = "run_automations" THEN {"caller", "awaiter"}
                      ELSE {"caller"})
    /\ remitted = [a \in Autos |-> 0]
    /\ rclosed = [a \in Autos |-> FALSE]
    /\ rtaken = [a \in Autos |-> 0]
    /\ loops = [a \in Autos |-> "next"]
    /\ job = [a \in Autos |-> [t \in RunTriggers |-> "none"]]
    /\ ex = "running"
    /\ awaiting = (IF runner = "run_automations" THEN 1 ELSE 0)
    /\ PolicyParked
    /\ SetParked
    /\ ChgParked
    /\ BtnParked
    /\ MgrParked
    /\ TopParked
    /\ PoolParked
    /\ ZbParked

\* the trigger stream of automation a gets a new item
REmit(a) ==
    /\ ex = "running"
    /\ ~rclosed[a]
    /\ remitted[a] < MaxRunTriggers
    /\ remitted' = [remitted EXCEPT ![a] = @ + 1]
    /\ UNCHANGED <<outsideRun, runner, panicMode, rclosed, rtaken, loops, job, ex, awaiting>>

\* the trigger stream of automation a is closed by its producer
RClose(a) ==
    /\ ex = "running"
    /\ ~rclosed[a]
    /\ rclosed' = [rclosed EXCEPT ![a] = TRUE]
    /\ UNCHANGED <<outsideRun, runner, panicMode, remitted, rtaken, loops, job, ex, awaiting>>

\* the event a suspended invocation waits for fires
RWake(a, t) ==
    /\ ex = "running"
    /\ job[a][t] = "pending"
    /\ job' = [job EXCEPT ![a][t] = "resumed"]
    /\ UNCHANGED <<outsideRun, runner, panicMode, remitted, rclosed, rtaken, loops, ex, awaiting>>

\* a run loop spawned by run_automations takes the next item of its stream
\* and calls the action, or returns at end-of-stream (Queued::run)
RunLoopNext(a) ==
    /\ runner = "run_automations"
    /\ ex = "running"
    /\ loops[a] = "next"
    /\ ExecutorPolls(a)
    /\ rtaken[a] < remitted[a] \/ rclosed[a]
    /\ IF rtaken[a] < remitted[a]
       THEN /\ rtaken' = [rtaken EXCEPT ![a] = @ + 1]
            /\ job' = [job EXCEPT ![a][rtaken[a] + 1] = "runnable"]
            /\ loops' = [loops EXCEPT ![a] = "run"]
       ELSE /\ loops' = [loops EXCEPT ![a] = "done"]
            /\ UNCHANGED <<rtaken, job>>
    /\ UNCHANGED <<outsideRun, runner, panicMode, remitted, rclosed, ex, awaiting>>

\* the executor polls the task of automation a while its run loop awaits an
\* invocation; nothing catches a panic of the invocation: it unwinds out of
\* the task, and the executor either lets it unwind through executor.run
\* into the caller or keeps it for whoever awaits the task
RunLoopRun(a) ==
    /\ runner = "run_automations"
    /\ ex = "running"
    /\ loops[a] = "run"
    /\ job[a][rtaken[a]] \in Pollable
    /\ ExecutorPolls(a)
    /\ \E o \in PollJob(job[a][rtaken[a]]) :
        /\ job' = [job EXCEPT ![a][rtaken[a]] = o]
        /\ loops' = [loops EXCEPT ![a] =
                        CASE o = "ok" -> "next"
                          [] o = "panic" -> "panicked"
                          [] o = "pending" -> "run"]
        /\ ex' = (IF o = "panic" /\ panicMode = "caller" THEN "panicked" ELSE ex)
    /\ UNCHANGED <<outsideRun, runner, panicMode, remitted, rclosed, rtaken, awaiting>>

\* the main future of run_automations: `for task in tasks { task.await }`;
\* awaiting a task whose future panicked raises the panic again
MainAwait ==
    /\ runner = "run_automations"
    /\ ex = "running"
    /\ awaiting <= TasksAwaited
    /\ loops[awaiting] \in {"done", "panicked"}
    /\ awaiting' = awaiting + 1
    /\ ex' = (IF loops[awaiting] = "panicked" THEN "panicked"
              ELSE IF awaiting + 1 > TasksAwaited THEN "returned"
              ELSE ex)
    /\ UNCHANGED <<outsideRun, runner, panicMode, remitted, rclosed, rtaken, loops, job>>

\* Manager::start: `block_on_stream(select_all(..))` yields the next job of
\* automation a, which is spawned on the scope, or sees a's stream end
MgrStream(a) ==
    /\ runner = "manager"
    /\ ex = "running"
    /\ loops[a] = "next"
    /\ rtaken[a] < remitted[a] \/ rclosed[a]
    /\ IF rtaken[a] < remitted[a]
       THEN /\ rtaken' = [rtaken EXCEPT ![a] = @ + 1]
            /\ job' = [job EXCEPT ![a][rtaken[a] + 1] = "runnable"]
            /\ UNCHANGED loops
       ELSE /\ loops' = [loops EXCEPT ![a] = "done"]
            /\ UNCHANGED <<rtaken, job>>
    /\ UNCHANGED <<outsideRun, runner, panicMode, remitted, rclosed, ex, awaiting>>

\* the runtime polls a spawned job:
\* `if let Err(panic) = AssertUnwindSafe(job).catch_unwind().await { error!(..) }`
MgrJob(a, t) ==
    /\ runner = "manager"
    /\ ex = "running"
    /\ job[a][t] \in Pollable
    /\ ExecutorPolls(a)
    /\ \E o \in PollJob(job[a][t]) :
        /\ job' = [job EXCEPT ![a][t] = o]
        /\ ex' = (IF o = "panic" THEN MgrAfterPanic ELSE ex)
    /\ UNCHANGED <<outsideRun, runner, panicMode, remitted, rclosed, rtaken, loops, awaiting>>

\* the `for` over the jobs has ended and scope_and_block has seen every
\* spawned job finish: start returns
MgrReturn ==
    /\ runner = "manager"
    /\ ex = "running"
    /\ \A a \in Autos : loops[a] = "done"
    /\ \A a \in Autos : \A t \in RunTriggers : job[a][t] \notin Unfinished
    /\ ex' = "returned"
    /\ UNCHANGED <<outsideRun, runner, panicMode, remitted, rclosed, rtaken, loops, job, awaiting>>

NextRun ==
    \/ \E a \in Autos : REmit(a)
    \/ \E a \in Autos : RClose(a)
    \/ \E a \in Autos : \E t \in RunTriggers : RWake(a, t)
    \/ \E a \in Autos : RunLoopNext(a)
    \/ \E a \in Autos : RunLoopRun(a)
    \/ MainAwait
    \/ \E a \in Autos : MgrStream(a)
    \/ \E a \in Autos : \E t \in RunTriggers : MgrJob(a, t)
    \/ MgrReturn

SpecRun == InitRun /\ [][NextRun]_vars

\* the executor and the runtime keep polling what is ready; producers and the
\* events invocations wait for are under no obligation
FairSpecRun ==
    /\ SpecRun
    /\ \A a \in Autos : WF_vars(RunLoopNext(a)) /\ WF_vars(RunLoopRun(a))
    /\ WF_vars(MainAwait)
    /\ \A a \in Autos : WF_vars(MgrStream(a))
    /\ \A a \in Autos : \A t \in RunTriggers : WF_vars(MgrJob(a, t))
    /\ WF_vars(MgrReturn)

\* ---- StreamCustomExt::filter_changes (crates/control/src/lib.rs) ---------

ItemValues == 1..NumValues

\* `this.last_item.as_ref().is_none_or(|last| item != last)`
ChangesPasses(last, item) == last = 0 \/ item # last

\* `filter_changes`: Changes { stream: self, last_item: None }
InitChg ==
    /\ cin = << >>
    /\ cemitted = 0
    /\ cclosed = FALSE
    /\ cended = FALSE
    /\ ctaken = << >>
    /\ last_item = 0
    /\ cout = << >>
    /\ PolicyParked
    /\ SetParked
    /\ RunParked
    /\ BtnParked
    /\ MgrParked
    /\ TopParked
    /\ PoolParked
    /\ ZbParked

\* the underlying stream gets a new item
CEmit(v) ==
    /\ ~cclosed
    /\ cemitted < MaxItems
    /\ cin' = Append(cin, v)
    /\ cemitted' = cemitted + 1
    /\ UNCHANGED <<outsideChg, cclosed, cended, ctaken, last_item, cout>>

\* the underlying stream is closed by its producer
CClose ==
    /\ ~cclosed
    /\ cclosed' = TRUE
    /\ UNCHANGED <<outsideChg, cin, cemitted, cended, ctaken, last_item, cout>>

\* Changes::poll_next with the underlying stream ready:
\* `poll_next_unpin(cx).map(|next| next.filter(|item| ..))`; Option::filter
\* turns Some(item) into None when the closure returns false
ChangesPoll ==
    /\ ~cended
    /\ cin # << >> \/ cclosed
    /\ IF cin # << >>
       THEN LET item == Head(cin)
                keep == ChangesPasses(last_item, item)
            IN /\ cin' = Tail(cin)
               /\ ctaken' = Append(ctaken, item)
               /\ last_item' = (IF keep THEN item ELSE last_item)
               /\ cout' = Append(cout, IF keep THEN item ELSE 0)
               /\ UNCHANGED cended
       ELSE /\ cended' = TRUE
            /\ cout' = Append(cout, 0)
            /\ UNCHANGED <<cin, ctaken, last_item>>
    /\ UNCHANGED <<outsideChg, cemitted, cclosed>>

NextChg ==
    \/ \E v \in ItemValues : CEmit(v)
    \/ CClose
    \/ ChangesPoll

SpecChg == InitChg /\ [][NextChg]_vars

\* ---- StreamCustomExt::count_presses (crates/control/src/button.rs) ------

ButtonEvents == {"Press", "Hold", "Release"}

\* `*count += 1` on a RangedU8<1, MAX>: the sum if it is in range; outside
\* the range the type panics, saturates or wraps, depending on its mode
RangedAdd(c, max, mode) ==
    IF c + 1 <= max THEN c + 1
    ELSE CASE mode = "saturate" -> max
           [] mode = "wrap" -> 1
           [] mode = "panic" -> c

\* `if *count == MAX`
ReachedMax(c, max) == c = max

\* what `stream.poll_next_unpin(cx)` returns for a ButtonPressStream b
ButtonPollNext(b) ==
    IF b.input # << >> THEN Head(b.input)
    ELSE IF bclosed THEN "end" ELSE "pending"

\* the item just polled is off the stream
Consumed(b, ev) == IF ev \in ButtonEvents THEN [b EXCEPT !.input = Tail(@)] ELSE b

\* `Poll::Ready(Some(ButtonPressEvent::Press(*count)))` or `..Hold(*count)`;
\* `held` records whether the press counted last has been released
Report(b, kind) ==
    [b EXCEPT !.timer = "none",
              !.out = Append(@, [kind |-> kind, n |-> b.count, held |-> b.held])]

\* `timer_pin.as_mut().poll(cx)` at the end of both branches
TimerPoll(b, kind) == IF b.timer = "expired" THEN Report(b, kind) ELSE b

\* poll_next with a timer set and `*released` true (button.rs:54-83)
ReleasedBranch(b) ==
    LET ev == ButtonPollNext(b)
        c == Consumed(b, ev)
        sum == RangedAdd(b.count, bmax, bovf)
    IN CASE ev = "end" -> [b EXCEPT !.st = "ended"]
         [] ev = "Press" ->
              IF b.count + 1 > bmax /\ bovf = "panic"
              THEN [c EXCEPT !.st = "panicked", !.sum = b.count + 1]
              ELSE IF ReachedMax(sum, bmax)
                   THEN Report([c EXCEPT !.count = sum, !.held = TRUE,
                                         !.sum = b.count + 1], "Press")
                   ELSE [c EXCEPT !.count = sum, !.held = TRUE, !.sum = b.count + 1,
                                  !.released = FALSE, !.timer = "running"]
         [] OTHER -> TimerPoll(c, "Press")

\* ButtonPressStream::poll_next
ButtonPoll(b) ==
    LET ev == ButtonPollNext(b)
        c == Consumed(b, ev)
    IN IF b.timer = "none"
       THEN CASE ev = "Press" -> [c EXCEPT !.count = 1, !.released = FALSE, !.sum = 1,
                                            !.held = TRUE, !.timer = "running"]
              [] ev = "end" -> [b EXCEPT !.st = "ended"]
              [] OTHER -> c
       ELSE IF b.released
       THEN ReleasedBranch(b)
       ELSE CASE ev = "end" -> [b EXCEPT !.st = "ended"]
              [] ev = "Release" ->
                   ReleasedBranch([c EXCEPT !.released = TRUE, !.held = FALSE])
              [] OTHER -> TimerPoll(c, "Hold")

\* ButtonPressStream::new
InitBtn ==
    /\ bmax \in 1..MaxCount
    /\ bovf \in {"panic", "saturate", "wrap"}
    /\ bclosed = FALSE
    /\ bemitted = 0
    /\ btn = [input |-> << >>, count |-> 1, released |-> FALSE, timer |-> "none",
              held |-> FALSE, sum |-> 1, out |-> << >>, st |-> "open"]
    /\ PolicyParked
    /\ SetParked
    /\ RunParked
    /\ ChgParked
    /\ MgrParked
    /\ TopParked
    /\ PoolParked
    /\ ZbParked

\* the button sends an event
BEvent(ev) ==
    /\ ~bclosed
    /\ btn.st = "open"
    /\ bemitted < MaxEvents
    /\ bemitted' = bemitted + 1
    /\ btn' = [btn EXCEPT !.input = Append(@, ev)]
    /\ UNCHANGED <<outsideBtn, bmax, bovf, bclosed>>

\* the button's event stream is closed by its producer
BClose ==
    /\ ~bclosed
    /\ bclosed' = TRUE
    /\ UNCHANGED <<outsideBtn, bmax, bovf, bemitted, btn>>

\* PRESS_INTERVAL has passed since the timer was started
BExpire ==
    /\ bmax > 0
    /\ btn.st = "open"
    /\ btn.timer = "running"
    /\ btn' = [btn EXCEPT !.timer = "expired"]
    /\ UNCHANGED <<outsideBtn, bmax, bovf, bclosed, bemitted>>

\* the consumer polls the stream
BPoll ==
    /\ bmax > 0
    /\ btn.st = "open"
    /\ btn' = ButtonPoll(btn)
    /\ btn' # btn
    /\ UNCHANGED <<outsideBtn, bmax, bovf, bclosed, bemitted>>

NextBtn ==
    \/ \E ev \in ButtonEvents : BEvent(ev)
    \/ BClose
    \/ BExpire
    \/ BPoll

SpecBtn == InitBtn /\ [][NextBtn]_vars

\* ---- ManagerBuilder and Manager::start (crates/control/src/manager.rs) ---

\* device manager types: 0 is the dummy manager `()`
ManagerTypes == 0..NumTypes

Signals == {"interrupt", "terminate"}

\* `manager.deref().as_any().is::<M>()` for some manager of the list
AlreadyRegisteredLast(dms, m) == dms # << >> /\ dms[Len(dms)] = m

AlreadyRegistered(dms, m) == \E i \in 1..Len(dms) : dms[i] = m

\* the managers `for manager in self.device_managers` starts
ManagersToStartSkipsFirst(dms) == Tail(dms)

ManagersToStart(dms) == dms

\* when the listener cancels the token:
\* `futures::future::join(interrupt.recv(), terminate.recv()).await`
TerminationDone(s) == s = Signals

\* Manager::builder()
InitMgr ==
    /\ mphase = "builder"
    /\ adds = << >>
    /\ device_managers = << >>
    /\ started = << >>
    /\ token = FALSE
    /\ listener = "none"
    /\ sigOk \in BOOLEAN
    /\ delivered = {}
    /\ seen = {}
    /\ sbuf = 0
    /\ semitted = 0
    /\ sopen = TRUE
    /\ dispatched = 0
    /\ unfinished = 0
    /\ PolicyParked
    /\ SetParked
    /\ RunParked
    /\ ChgParked
    /\ BtnParked
    /\ TopParked
    /\ PoolParked
    /\ ZbParked

\* ManagerBuilder::add_device_manager::<M>
AddDeviceManager(m) ==
    /\ mphase = "builder"
    /\ Len(adds) < MaxAdds
    /\ adds' = Append(adds, m)
    /\ device_managers' = (IF AlreadyRegistered(device_managers, m)
                           THEN device_managers
                           ELSE Append(device_managers, m))
    /\ UNCHANGED <<outsideMgr, mphase, started, token, listener, sigOk, delivered,
                   seen, sbuf, semitted, sopen, dispatched, unfinished>>

\* build(): Manager::new inserts the dummy manager at the front
Build ==
    /\ mphase = "builder"
    /\ device_managers' = <<0>> \o device_managers
    /\ mphase' = "devices"
    /\ UNCHANGED <<outsideMgr, adds, started, token, listener, sigOk, delivered,
                   seen, sbuf, semitted, sopen, dispatched, unfinished>>

\* Manager::start: `manager.start(token.clone())` for the next manager, and
\* after the last one the signal listener is spawned and the main loop entered
StartDevices ==
    /\ mphase = "devices"
    /\ LET todo == ManagersToStart(device_managers)
       IN IF Len(started) < Len(todo)
          THEN /\ started' = Append(started, todo[Len(started) + 1])
               /\ UNCHANGED <<mphase, listener>>
          ELSE /\ listener' = "spawned"
               /\ mphase' = "loop"
               /\ UNCHANGED started
    /\ UNCHANGED <<outsideMgr, adds, device_managers, token, sigOk, delivered,
                   seen, sbuf, semitted, sopen, dispatched, unfinished>>

\* the listener task registers its handlers: `signal(..).unwrap()` panics
\* inside the spawned task when registration fails
ListenerRegister ==
    /\ mphase = "loop"
    /\ listener = "spawned"
    /\ listener' = (IF sigOk THEN "listening" ELSE "panicked")
    /\ UNCHANGED <<outsideMgr, mphase, adds, device_managers, started, token, sigOk,
                   delivered, seen, sbuf, semitted, sopen, dispatched, unfinished>>

\* the process receives a signal
Signal(sig) ==
    /\ mphase = "loop"
    /\ listener = "listening"
    /\ sig \notin delivered
    /\ delivered' = delivered \cup {sig}
    /\ UNCHANGED <<outsideMgr, mphase, adds, device_managers, started, token,
                   listener, sigOk, seen, sbuf, semitted, sopen, dispatched,
                   unfinished>>

\* the listener task is polled: `termination.await; token.cancel()`
ListenerPoll ==
    /\ mphase = "loop"
    /\ listener = "listening"
    /\ seen # delivered
    /\ seen' = delivered
    /\ token' = TerminationDone(delivered)
    /\ listener' = (IF TerminationDone(delivered) THEN "done" ELSE listener)
    /\ UNCHANGED <<outsideMgr, mphase, adds, device_managers, started, sigOk,
                   delivered, sbuf, semitted, sopen, dispatched, unfinished>>

\* a trigger fires on some automation's stream
TriggerFires ==
    /\ mphase \in {"devices", "loop"}
    /\ sopen
    /\ semitted < MaxStartTriggers
    /\ semitted' = semitted + 1
    /\ sbuf' = sbuf + 1
    /\ UNCHANGED <<outsideMgr, mphase, adds, device_managers, started, token,
                   listener, sigOk, delivered, seen, sopen, dispatched, unfinished>>

\* the last open trigger stream is closed by its producer
StreamsClose ==
    /\ mphase \in {"devices", "loop"}
    /\ sopen
    /\ sopen' = FALSE
    /\ UNCHANGED <<outsideMgr, mphase, adds, device_managers, started, token,
                   listener, sigOk, delivered, seen, sbuf, semitted, dispatched,
                   unfinished>>

\* `for (name, job) in block_on_stream(all_jobs) { scope.spawn(..) }`
Dispatch ==
    /\ mphase = "loop"
    /\ sbuf > 0
    /\ sbuf' = sbuf - 1
    /\ dispatched' = dispatched + 1
    /\ unfinished' = unfinished + 1
    /\ UNCHANGED <<outsideMgr, mphase, adds, device_managers, started, token,
                   listener, sigOk, delivered, seen, semitted, sopen>>

\* a spawned job finishes
JobFinishes ==
    /\ mphase = "loop"
    /\ unfinished > 0
    /\ unfinished' = unfinished - 1
    /\ UNCHANGED <<outsideMgr, mphase, adds, device_managers, started, token,
                   listener, sigOk, delivered, seen, sbuf, semitted, sopen,
                   dispatched>>

\* the stream of jobs has ended and scope_and_block has seen every job finish
StartReturns ==
    /\ mphase = "loop"
    /\ ~sopen
    /\ sbuf = 0
    /\ unfinished = 0
    /\ mphase' = "returned"
    /\ UNCHANGED <<outsideMgr, adds, device_managers, started, token, listener,
                   sigOk, delivered, seen, sbuf, semitted, sopen, dispatched,
                   unfinished>>

NextMgr ==
    \/ \E m \in ManagerTypes : AddDeviceManager(m)
    \/ Build
    \/ StartDevices
    \/ ListenerRegister
    \/ \E sig \in Signals : Signal(sig)
    \/ ListenerPoll
    \/ TriggerFires
    \/ StreamsClose
    \/ Dispatch
    \/ JobFinishes
    \/ StartReturns

SpecMgr == InitMgr /\ [][NextMgr]_vars

\* the runtime keeps polling the listener task and the main loop; signals,
\* trigger streams and jobs are under no obligation
FairSpecMgr ==
    /\ SpecMgr
    /\ WF_vars(StartDevices)
    /\ WF_vars(ListenerRegister)
    /\ WF_vars(ListenerPoll)
    /\ WF_vars(Dispatch)
    /\ WF_vars(StartReturns)

\* ---- Manager::start of the top-level crate (src/src/lib.rs) --------------

\* what a run-loop task is once start() has returned: with async-executor the
\* Executor is a local of start() that the returned future does not hold, so
\* it is dropped, never having run a task, and dropping it cancels its tasks;
\* with custom-executor the tasks run on the tokio runtime
Spawned(f) == IF f = "async-executor" THEN "cancelled" ELSE "running"

AllFinished == \A i \in 1..Len(ttasks) : ttasks[i] = "finished"

\* polling `join_all(tasks)`: awaiting a cancelled async_executor::Task
\* panics, otherwise the join is ready once every task has finished
JoinAllPoll ==
    IF \E i \in 1..Len(ttasks) : ttasks[i] = "cancelled" THEN "panic"
    ELSE IF AllFinished THEN "ready" ELSE "pending"

\* `futures::select! { _ = tasks => {}, _ = timeout => {} }`
SelectPoll ==
    IF ttimer = "fired" THEN "resolved"
    ELSE CASE JoinAllPoll = "panic" -> "panicked"
           [] JoinAllPoll = "ready" -> "resolved"
           [] JoinAllPoll = "pending" -> "select"

InitTop ==
    /\ feature \in {"async-executor", "custom-executor"}
    /\ tsigOk \in BOOLEAN
    /\ tphase = "start"
    /\ ttasks \in UNION {[1..n -> {"job"}] : n \in 0..MaxTasks}
    /\ tsignal = FALSE
    /\ ttimer = "none"
    /\ tpolled = FALSE
    /\ PolicyParked
    /\ SetParked
    /\ RunParked
    /\ ChgParked
    /\ BtnParked
    /\ MgrParked
    /\ PoolParked
    /\ ZbParked

\* the synchronous part of start(): register the signals (`expect` panics on
\* failure), spawn one task per run loop, return the future
TopStart ==
    /\ tphase = "start"
    /\ tphase' = (IF tsigOk THEN "waiting" ELSE "panicked")
    /\ ttasks' = (IF tsigOk THEN [i \in 1..Len(ttasks) |-> Spawned(feature)]
                  ELSE ttasks)
    /\ UNCHANGED <<outsideTop, feature, tsigOk, tsignal, ttimer, tpolled>>

\* a run loop ends because its trigger stream has closed
TaskFinishes(i) ==
    /\ tphase \in {"waiting", "select"}
    /\ i <= Len(ttasks)
    /\ ttasks[i] = "running"
    /\ ttasks' = [ttasks EXCEPT ![i] = "finished"]
    /\ tpolled' = FALSE
    /\ UNCHANGED <<outsideTop, feature, tsigOk, tphase, tsignal, ttimer>>

\* the process receives SIGTERM or SIGINT
TopSignal ==
    /\ tphase \in {"waiting", "select"}
    /\ ~tsignal
    /\ tsignal' = TRUE
    /\ tpolled' = FALSE
    /\ UNCHANGED <<outsideTop, feature, tsigOk, tphase, ttasks, ttimer>>

\* 1000 ms have passed since the grace timer was created
TimerFires ==
    /\ tphase = "select"
    /\ ttimer = "running"
    /\ ttimer' = "fired"
    /\ tpolled' = FALSE
    /\ UNCHANGED <<outsideTop, feature, tsigOk, tphase, ttasks, tsignal>>

\* the returned future is polled: `termination.next().await`, then the timer
\* is created and the select is polled
TopPoll ==
    /\ tphase \in {"waiting", "select"}
    /\ ~tpolled
    /\ tpolled' = TRUE
    /\ IF tphase = "waiting" /\ ~tsignal
       THEN UNCHANGED <<tphase, ttimer>>
       ELSE /\ tphase' = SelectPoll
            /\ ttimer' = (IF tphase = "waiting" THEN "running" ELSE ttimer)
    /\ UNCHANGED <<outsideTop, feature, tsigOk, ttasks, tsignal>>

NextTop ==
    \/ TopStart
    \/ \E i \in 1..MaxTasks : TaskFinishes(i)
    \/ TopSignal
    \/ TimerFires
    \/ TopPoll

SpecTop == InitTop /\ [][NextTop]_vars

\* ---- ThreadPool (src/src/threads.rs) --------------------------------------

Workers == 1..NumWorkers

Jobs == 1..MaxJobs

\* `abort.load(Ordering::Relaxed)` at the top of the worker's loop
AbortLoadNever(a) == FALSE

AbortLoad(a) == a

\* what `runnable.run()` leaves job j in: resolved with Ok or Err, or
\* suspended until its waker is called
JobOutcomes(j) ==
    {"ok", "err"} \cup (IF jobs[j].polls + 1 < MaxJobPolls THEN {"waiting"} ELSE {})

\* `block_on(poll_immediate(&mut task))` is Some: the job of the task has
\* resolved, so the filter_map drops the task
ResolvedOrSuspended(j) == jobs[j].st \in {"ok", "err", "waiting"}

Resolved(j) == jobs[j].st \in {"ok", "err"}

\* new_thread_pool: the request channel, the abort flag, one thread per worker
InitPool ==
    /\ requests = << >>
    /\ reqOpen = TRUE
    /\ abort = FALSE
    /\ late = FALSE
    /\ cphase = "idle"
    /\ handles = [w \in Workers |-> w]
    /\ wpc = [w \in Workers |-> "top"]
    /\ wrecv = [w \in Workers |-> "none"]
    /\ runq = [w \in Workers |-> << >>]
    /\ jobs = [j \in Jobs |-> [st |-> "unsent", owner |-> 0, polls |-> 0, held |-> FALSE]]
    /\ sent = 0
    /\ PolicyParked
    /\ SetParked
    /\ RunParked
    /\ ChgParked
    /\ BtnParked
    /\ MgrParked
    /\ TopParked
    /\ ZbParked

\* ThreadPool::execute (cancel consumes the pool, so there is none after it)
Execute ==
    /\ cphase = "idle"
    /\ sent < MaxJobs
    /\ sent' = sent + 1
    /\ requests' = Append(requests, sent + 1)
    /\ jobs' = [jobs EXCEPT ![sent + 1].st = "queued"]
    /\ UNCHANGED <<outsidePool, reqOpen, abort, late, cphase, handles, wpc, wrecv, runq>>

\* worker: the top of the loop. On abort the closure returns, which drops
\* `tasks` (cancelling the jobs that have not resolved) and the local channel
WorkerTop(w) ==
    /\ wpc[w] = "top"
    /\ IF AbortLoad(abort)
       THEN /\ wpc' = [wpc EXCEPT ![w] = "exited"]
            /\ runq' = [runq EXCEPT ![w] = << >>]
            /\ jobs' = [j \in Jobs |->
                         IF jobs[j].owner # w THEN jobs[j]
                         ELSE IF jobs[j].st \in {"ready", "waiting"}
                         THEN [jobs[j] EXCEPT !.st = "dropped", !.held = FALSE]
                         ELSE [jobs[j] EXCEPT !.held = FALSE]]
       ELSE /\ wpc' = [wpc EXCEPT ![w] = "body"]
            /\ UNCHANGED <<runq, jobs>>
    /\ UNCHANGED <<outsidePool, requests, reqOpen, abort, late, cphase, handles, wrecv, sent>>

\* worker: the rest of one loop iteration. The resolved tasks are removed
\* from `tasks` (an Err is logged); then a runnable of the local channel is
\* run, or else a job is taken from the request channel and scheduled. The
\* local channel's sender lives in `schedule`, so that channel is never
\* disconnected and the `break` is not taken.
WorkerBody(w) ==
    /\ wpc[w] = "body"
    /\ wpc' = [wpc EXCEPT ![w] = "top"]
    /\ LET filtered == [j \in Jobs |->
                          IF jobs[j].owner = w /\ Resolved(j)
                          THEN [jobs[j] EXCEPT !.held = FALSE] ELSE jobs[j]]
       IN
       IF runq[w] # << >>
       THEN /\ \E o \in JobOutcomes(Head(runq[w])) :
                 jobs' = [filtered EXCEPT ![Head(runq[w])].st = o,
                                          ![Head(runq[w])].polls = @ + 1]
            /\ runq' = [runq EXCEPT ![w] = Tail(@)]
            /\ UNCHANGED <<requests, wrecv>>
       ELSE IF requests # << >>
       THEN /\ jobs' = [filtered EXCEPT ![Head(requests)] =
                          [st |-> "ready", owner |-> w, polls |-> 0, held |-> TRUE]]
            /\ runq' = [runq EXCEPT ![w] = <<Head(requests)>>]
            /\ requests' = Tail(requests)
            /\ wrecv' = [wrecv EXCEPT ![w] = "job"]
       ELSE /\ jobs' = filtered
            /\ wrecv' = [wrecv EXCEPT ![w] = IF reqOpen THEN "empty" ELSE "disconnected"]
            /\ UNCHANGED <<requests, runq>>
    /\ UNCHANGED <<outsidePool, reqOpen, abort, late, cphase, handles, sent>>

\* the waker of a suspended job is called: `schedule` sends its runnable to
\* the local channel of the worker that spawned it
JobWake(j) ==
    /\ jobs[j].st = "waiting"
    /\ jobs' = [jobs EXCEPT ![j].st = "ready"]
    /\ runq' = [runq EXCEPT ![jobs[j].owner] = Append(@, j)]
    /\ UNCHANGED <<outsidePool, requests, reqOpen, abort, late, cphase, handles, wpc, wrecv, sent>>

\* ThreadPool::cancel: `drop(self.requests)` and the deadline is computed
CancelStart ==
    /\ cphase = "idle"
    /\ cphase' = "waiting"
    /\ reqOpen' = FALSE
    /\ UNCHANGED <<outsidePool, requests, abort, late, handles, wpc, wrecv, runq, jobs, sent>>

\* `timeout` has passed since cancel was called
DeadlinePasses ==
    /\ cphase = "waiting"
    /\ ~late
    /\ late' = TRUE
    /\ UNCHANGED <<outsidePool, requests, reqOpen, abort, cphase, handles, wpc, wrecv, runq, jobs, sent>>

\* ThreadPool::cancel: the `while Instant::now() < deadline` loop, which has
\* joined the workers it found finished, ends and the abort flag is stored
CancelAbort ==
    /\ cphase = "waiting"
    /\ late
    /\ handles' = SelectSeq(handles, LAMBDA w : wpc[w] # "exited")
    /\ abort' = TRUE
    /\ cphase' = "joining"
    /\ UNCHANGED <<outsidePool, requests, reqOpen, late, wpc, wrecv, runq, jobs, sent>>

\* ThreadPool::cancel: `for handle in handles { handle.join() }`, then return
CancelJoin ==
    /\ cphase = "joining"
    /\ IF handles = << >>
       THEN /\ cphase' = "returned"
            /\ UNCHANGED handles
       ELSE /\ wpc[Head(handles)] = "exited"
            /\ handles' = Tail(handles)
            /\ UNCHANGED cphase
    /\ UNCHANGED <<outsidePool, requests, reqOpen, abort, late, wpc, wrecv, runq, jobs, sent>>

NextPool ==
    \/ Execute
    \/ \E w \in Workers : WorkerTop(w)
    \/ \E w \in Workers : WorkerBody(w)
    \/ \E j \in Jobs : JobWake(j)
    \/ CancelStart
    \/ DeadlinePasses
    \/ CancelAbort
    \/ CancelJoin

SpecPool == InitPool /\ [][NextPool]_vars

\* the worker threads run, time passes and cancel, once called, runs
FairSpecPool ==
    /\ SpecPool
    /\ \A w \in Workers : WF_vars(WorkerTop(w)) /\ WF_vars(WorkerBody(w))
    /\ WF_vars(DeadlinePasses)
    /\ WF_vars(CancelAbort)
    /\ WF_vars(CancelJoin)

\* ---- zigbee Manager (crates/zigbee/src/lib.rs) ---------------------------

\* the names a device can have: strings over a small alphabet
DeviceNames == UNION {[1..n -> 1..NumLetters] : n \in 1..MaxNameLen}

\* `format!("zigbee2mqtt/{topic}")`, the prefix written as the letter 0; it
\* is also the topic zigbee2mqtt publishes a device's state on
SubscriptionTopic(name) == <<0>> \o name

\* `str::starts_with`
StartsWith(t, p) == Len(p) <= Len(t) /\ SubSeq(t, 1, Len(p)) = p

InitZb ==
    /\ subscriptions = << >>
    /\ zstarted = FALSE
    /\ zsent = 0
    /\ zrecv = << >>
    /\ PolicyParked
    /\ SetParked
    /\ RunParked
    /\ ChgParked
    /\ BtnParked
    /\ MgrParked
    /\ TopParked
    /\ PoolParked

\* Manager::subscribe, called by a device of the given name
ZbSubscribe(name) ==
    /\ ~zstarted
    /\ Len(subscriptions) < MaxSubs
    /\ subscriptions' = Append(subscriptions, SubscriptionTopic(name))
    /\ zrecv' = Append(zrecv, << >>)
    /\ UNCHANGED <<outsideZb, zstarted, zsent>>

\* Manager::start: the client subscribes to the topic of every subscription
ZbStart ==
    /\ ~zstarted
    /\ zstarted' = TRUE
    /\ UNCHANGED <<outsideZb, subscriptions, zsent, zrecv>>

\* subscription_job: the broker delivers a publish, which it does for the
\* topics the client has subscribed to, and the job sends it to the channel
\* of every subscription that passes the filter
ZbIncoming(i) ==
    /\ zstarted
    /\ zsent < MaxPublishes
    /\ i <= Len(subscriptions)
    /\ zsent' = zsent + 1
    /\ zrecv' = [k \in 1..Len(subscriptions) |->
                   IF StartsWith(subscriptions[i], subscriptions[k])
                   THEN Append(zrecv[k], subscriptions[i]) ELSE zrecv[k]]
    /\ UNCHANGED <<outsideZb, subscriptions, zstarted>>

NextZb ==
    \/ \E name \in DeviceNames : ZbSubscribe(name)
    \/ ZbStart
    \/ \E i \in 1..MaxSubs : ZbIncoming(i)

SpecZb == InitZb /\ [][NextZb]_vars

\* ---- properties ----------------------------------------------------------

BufSet == {buf[i] : i \in 1..Len(buf)}

\* C1: under `single`, a trigger that became available while an invocation
\* was in flight is never passed to the action; it stays on the stream only
\* until the drain that follows that invocation, which consumes it without
\* dispatching it.
C1_SingleBusyTriggerDropped ==
    policy = "single" =>
        \A t \in 1..emitted :
            arr[t].cur # None =>
                /\ t \notin PassedSet
                /\ \/ t \in drained
                   \/ t \in BufSet /\ pc \in {"run", "drain"}

\* a trigger that arrived during an invocation has been drained, and the
\* loop is waiting for a trigger again
C1_Witness ==
    /\ policy = "single"
    /\ pc = "next"
    /\ \E t \in 1..emitted : arr[t].cur # None /\ t \in drained

\* C2 as stated: under `single`, every trigger that arrived after an
\* invocation had completed, with no invocation in flight, is passed to the
\* action when the loop takes it off the stream.
C2_Original ==
    policy = "single" =>
        \A t \in 1..emitted :
            (arr[t].resolved >= 1 /\ arr[t].cur = None /\ t \notin BufSet)
                => t \in PassedSet

\* C2 amended: under `single`, a trigger that arrives while the run loop is
\* waiting for a trigger (any post-invocation drain has ended) and no earlier
\* trigger is still waiting on the stream is eventually passed to the action.
C2_SingleIdleTriggerDispatched ==
    \A t \in Triggers :
        [](policy = "single" /\ t <= emitted /\ arr[t].pc = "next"
             /\ arr[t].ahead = 0
           => <>(t \in PassedSet))

\* a trigger that arrived after an invocation had completed and its drain
\* had ended has been passed to the action
C2_Witness ==
    /\ policy = "single"
    /\ \E t \in 1..emitted :
          /\ arr[t].pc = "next" /\ arr[t].ahead = 0 /\ arr[t].resolved >= 1
          /\ t \in PassedSet

\* C3: under `queued`, the action is invoked on the triggers in exactly the
\* order the stream emitted them (1, 2, 3, ... without a gap), and an
\* invocation is started only when every earlier one has resolved.
C3_QueuedInOrderNoOverlap ==
    policy = "queued" =>
        /\ passed = [i \in 1..Len(passed) |-> i]
        /\ \A i \in 1..Len(passed) : i < Len(passed) => passed[i] \in Completed
        /\ \A i \in 1..Len(results) : results[i].trig = passed[i]

\* three triggers, the 2nd and 3rd of which arrived during the 1st
\* invocation, have all been passed to the action
C3_Witness ==
    /\ policy = "queued"
    /\ Len(passed) = 3
    /\ arr[2].cur.trig = 1
    /\ arr[3].cur.trig = 1

\* C4: under `queued`, every trigger the stream emits is eventually passed to
\* the action, and no trigger is passed twice.
C4_QueuedEveryTriggerOnce ==
    /\ \A t \in Triggers :
          [](policy = "queued" /\ t <= emitted => <>(t \in PassedSet))
    /\ [](policy = "queued" =>
             \A i, j \in 1..Len(passed) : passed[i] = passed[j] => i = j)

\* every trigger of a run in which two of them waited behind a busy action
\* has been passed and has resolved
C4_Witness ==
    /\ policy = "queued"
    /\ emitted = MaxTriggers
    /\ Completed = Triggers
    /\ \E t \in Triggers : arr[t].cur # None /\ arr[t].ahead >= 1

\* C5: under `cancel`, an invocation that was suspended when a later trigger
\* arrived is dropped and never completes.
C5_CancelSuspendedNeverCompletes ==
    policy = "cancel" =>
        \A t \in 1..emitted :
            arr[t].cur.st = "pending" => arr[t].cur.trig \notin Completed

\* C6: under `cancel`, only an invocation superseded by a later trigger is
\* dropped, and when the run loop has resolved the invocation of the last
\* trigger it was given has completed.
C6_CancelUnsupersededCompletes ==
    policy = "cancel" =>
        /\ \A t \in cancelled : \E i \in 1..Len(passed) : passed[i] > t
        /\ (pc = "done" /\ passed # << >>) => passed[Len(passed)] \in Completed

\* C7: under `parallel`, the number of occupied slots never exceeds the
\* configured maximum.
C7_ParallelInFlightBounded ==
    policy = "parallel" => InFlight <= max_parallel

\* more triggers than the maximum are waiting and the run loop has been
\* polled since the last of them arrived
C7_Witness ==
    /\ policy = "parallel"
    /\ max_parallel >= 1
    /\ polled
    /\ ~terminated
    /\ Len(buf) > max_parallel

\* C8: under `parallel` with a maximum of at least 1, every trigger the
\* stream emits is eventually passed to the action and its invocation
\* eventually completes.
C8_ParallelEveryTriggerCompletes ==
    \A t \in Triggers :
        [](policy = "parallel" /\ max_parallel >= 1 /\ t <= emitted
           => <>(t \in PassedSet /\ t \in Completed))

\* C9: under `parallel`, once the run loop has been polled with a trigger
\* available and fewer than the maximum of invocations in flight, an
\* invocation has been started.
C9_ParallelAdmitsBelowMax ==
    (/\ policy = "parallel"
     /\ polled
     /\ ~terminated
     /\ buf # << >>
     /\ InFlight < max_parallel)
        => passed # << >>

\* C10: for each policy, a step in which an invocation resolves, with Ok or
\* with Err alike, leaves the run loop at the policy's normal continuation
\* (never returned, never panicked) with the stream and the dispatch history
\* untouched, and the loop returns only on end-of-stream.
C10_FailureLikeSuccess ==
    [][/\ Len(results') > Len(results) =>
            /\ pc' = (CASE policy = "single" -> "drain"
                        [] policy = "queued" -> "next"
                        [] policy = "cancel" -> "next"
                        [] policy = "parallel" ->
                              IF terminated' /\ count' = 0 THEN "done" ELSE "poll")
            /\ policy # "parallel" =>
                  (buf' = buf /\ passed' = passed /\ cur' = None
                     /\ terminated' = terminated)
       /\ (pc' = "done" /\ pc # "done") => terminated']_vars

\* an invocation has failed and a later trigger has been passed to the action
C10_Witness ==
    \E i \in 1..Len(passed) :
        /\ passed[i] \in Failed
        /\ i < Len(passed)

\* the tasks a call of futures() on the i-th child of the set appends
ChildFutures(i) == Futures(aset.items[i], <<i>>, << >>)

RECURSIVE Concat(_)
Concat(q) == IF q = << >> THEN << >> ELSE Head(q) \o Concat(Tail(q))

\* C17: futures() leaves the given vector's elements in place and appends
\* exactly size() tasks, for every automation set; a single automation has
\* size 1.
C17_FuturesAppendsSize ==
    /\ ("futures" \in calls /\ "size" \in calls) =>
          /\ Len(futures) = Len(given) + sized
          /\ SubSeq(futures, 1, Len(given)) = given
    /\ ("size" \in calls /\ aset.kind = "automation") => sized = 1

\* size() and futures() have both been called on a Vec that holds a nested
\* set of more than one automation
C17_Witness ==
    /\ calls = {"size", "futures"}
    /\ aset.kind = "vec"
    /\ \E i \in 1..Len(aset.items) :
          aset.items[i].kind # "automation" /\ Size(aset.items[i]) > 1

\* C18: for a tuple or a Vec, size() is the sum of the children's sizes and
\* futures() appends the children's tasks child after child, in child order.
C18_CompositeIsConcatenation ==
    aset.kind \in {"tuple", "vec"} =>
        /\ "size" \in calls =>
              sized = SumSeq([i \in 1..Len(aset.items) |-> Size(aset.items[i])])
        /\ "futures" \in calls =>
              futures = given \o Concat([i \in 1..Len(aset.items) |-> ChildFutures(i)])

\* both calls were made on a set of two children of different sizes
C18_Witness ==
    /\ calls = {"size", "futures"}
    /\ aset.kind \in {"tuple", "vec"}
    /\ Len(aset.items) = 2
    /\ Size(aset.items[1]) # Size(aset.items[2])

\* C13: under every policy the run loop does not resolve while the trigger
\* stream is still open.
C13_NoResolveWhileOpen ==
    (policy \in Policies /\ pc = "done") => closed

\* a queued run loop has resolved after two invocations
C13_Witness ==
    /\ policy = "queued"
    /\ pc = "done"
    /\ Len(results) >= 2

\* C14: under `single`, once the trigger stream is closed the run loop
\* eventually resolves.
C14_SingleResolvesOnceClosed ==
    (policy = "single" /\ closed) ~> (pc = "done")

\* C15: under `parallel` (with room for at least one invocation), once the
\* stream is closed and drained and no invocation is in flight, the run loop
\* eventually resolves.
C15_ParallelResolvesOnceClosedAndIdle ==
    (policy = "parallel" /\ max_parallel >= 1 /\ closed /\ buf = << >>
       /\ count = 0) ~> (pc = "done")

\* C16: under single, queued and cancel every invocation but the latest has
\* completed or been dropped, so at most one invocation exists at any
\* instant and a new one starts only after the previous one is gone.
C16_AtMostOneInvocation ==
    policy \in {"single", "queued", "cancel"} =>
        /\ \A i \in 1..(Len(passed) - 1) : passed[i] \in Completed \cup cancelled
        /\ cur # None =>
              /\ cur.trig = passed[Len(passed)]
              /\ cur.trig \notin Completed \cup cancelled

\* under cancel a second invocation is running after the first was dropped
C16_Witness ==
    /\ policy = "cancel"
    /\ Len(passed) >= 2
    /\ cancelled # {}
    /\ cur # None

\* C11: under run_automations a panic inside an invocation neither ends the
\* run loop it happened in nor makes run_automations panic.
C11_PanicIsolatedLikeFailure ==
    (runner = "run_automations" /\ \E a \in Autos : \E t \in RunTriggers : job[a][t] = "panic") =>
        /\ ex # "panicked"
        /\ \A a \in Autos : loops[a] # "panicked"

\* some invocation has panicked
SomePanic == \E a \in Autos : \E t \in RunTriggers : job[a][t] = "panic"

\* C12: in Manager::start a panic of a job is caught at the job: start does
\* not panic, triggers that come after a panic are still spawned as jobs and
\* the jobs are run, and start returns once every stream has closed and
\* every job has finished.
C12_ManagerCatchesJobPanic ==
    /\ [](runner = "manager" => ex # "panicked")
    /\ \A a \in Autos : \A t \in RunTriggers :
          (runner = "manager" /\ SomePanic /\ rtaken[a] < t /\ t <= remitted[a])
             ~> (job[a][t] # "none")
    /\ \A a \in Autos : \A t \in RunTriggers :
          (runner = "manager" /\ SomePanic /\ job[a][t] = "runnable")
             ~> (job[a][t] # "runnable")
    /\ (/\ runner = "manager"
        /\ \A a \in Autos : rclosed[a] /\ rtaken[a] = remitted[a]
        /\ \A a \in Autos : \A t \in RunTriggers : job[a][t] \notin Unfinished)
          ~> (ex = "returned")

\* start has returned after a job panicked, a later job of the same
\* automation completed and a job of another automation completed
C12_Witness ==
    /\ runner = "manager"
    /\ ex = "returned"
    /\ job[1][1] = "panic"
    /\ job[1][2] = "ok"
    /\ job[2][1] = "ok"

\* C19: run_automations does not return before every run loop has resolved,
\* and returns once all of them have.
C19_ReturnsWhenAllResolved ==
    /\ []((runner = "run_automations" /\ ex = "returned") =>
             \A a \in Autos : loops[a] = "done")
    /\ (runner = "run_automations" /\ \A a \in Autos : loops[a] = "done")
          ~> (ex = "returned")

\* run_automations has returned after every automation ran an invocation
C19_Witness ==
    /\ runner = "run_automations"
    /\ ex = "returned"
    /\ \A a \in Autos : job[a][1] = "ok"

\* C20: while an invocation of automation a is suspended, the next trigger
\* on the stream of another automation b whose run loop is waiting for one
\* is dispatched to b's action (unless the whole call has panicked).
C20_SuspendedDoesNotBlockOthers ==
    \A a \in Autos : \A b \in Autos \ {a} : \A t \in RunTriggers :
        (/\ ex = "running"
         /\ \E u \in RunTriggers : job[a][u] = "pending"
         /\ loops[b] = "next"
         /\ rtaken[b] < remitted[b]
         /\ t = rtaken[b] + 1)
          ~> (job[b][t] # "none" \/ ex = "panicked")

\* under run_automations automation 2 has completed two invocations and
\* automation 1's first invocation is still suspended
C20_Witness ==
    /\ runner = "run_automations"
    /\ job[1][1] = "pending"
    /\ job[2][1] = "ok"
    /\ job[2][2] = "ok"

\* C27: filter_changes signals end-of-stream (returns None) only when the
\* underlying stream has ended, and then as the last thing it returns.
C27_EndOnlyWhenUnderlyingEnded ==
    \A i \in 1..Len(cout) : cout[i] = 0 => (cended /\ i = Len(cout))

\* C28: count_presses reports Press(n) only when the press counted last had
\* been released (a press still held is reported as Hold(n)), for MAX >= 2.
C28_PressOnlyWhenReleased ==
    bmax >= 2 =>
        \A i \in 1..Len(btn.out) : btn.out[i].kind = "Press" => ~btn.out[i].held

\* C29: for every MAX >= 1 the press count that count_presses computes,
\* holds and reports stays within 1..=MAX (`sum` is the value the last
\* `*count = 1` or `*count += 1` computed).
C29_CountWithinMax ==
    bmax >= 1 =>
        /\ btn.count \in 1..bmax
        /\ btn.sum \in 1..bmax
        /\ \A i \in 1..Len(btn.out) : btn.out[i].n \in 1..bmax

\* C23: after the shutdown signal has fired (both signals, so that the token
\* is cancelled) Manager::start eventually returns, whatever the streams and
\* the jobs do.
C23_ReturnsAfterShutdownSignal ==
    token ~> (mphase = "returned")

\* C24: one signal whose recv() has completed in the listener is enough for
\* the token to be cancelled.
C24_OneSignalCancelsToken ==
    seen # {} => token

\* C25: once registering the signal handler has failed, no trigger is
\* dispatched.
C25_NoDispatchWithoutSignalHandler ==
    [][listener = "panicked" => dispatched' = dispatched]_vars

\* C26: when a trigger has been dispatched, start() has been called on every
\* registered device manager, the dummy manager included.
C26_DevicesStartedBeforeDispatch ==
    dispatched > 0 => started = device_managers

\* a trigger was dispatched by a manager with three device managers
C26_Witness ==
    /\ dispatched > 0
    /\ Len(device_managers) = 3

\* the list add_device_manager builds from the types it was called with:
\* the first occurrence of each type, in call order
RECURSIVE FirstOccurrences(_)
FirstOccurrences(q) ==
    IF q = << >> THEN << >>
    ELSE LET front == FirstOccurrences(SubSeq(q, 1, Len(q) - 1))
             m == q[Len(q)]
         IN IF \E i \in 1..(Len(q) - 1) : q[i] = m THEN front ELSE Append(front, m)

\* C30: add_device_manager with a type that is already registered leaves the
\* builder's list unchanged: the list holds each added type once, in the
\* order of the first additions.
C30_AddTwiceIsAddOnce ==
    mphase = "builder" => device_managers = FirstOccurrences(adds)

\* a type was added, then another, then the first again
C30_Witness ==
    /\ mphase = "builder"
    /\ Len(adds) = 3
    /\ adds[1] = adds[3]
    /\ adds[1] # adds[2]

\* C21: once a termination signal has been received and the future has been
\* polled, the future has resolved, or it is waiting inside the grace period
\* for tasks that have not finished.
C21_ResolvesWithinGrace ==
    (tsignal /\ tpolled) =>
        \/ tphase = "resolved"
        \/ tphase = "select" /\ ttimer = "running" /\ ~AllFinished

\* C22: once every spawned run-loop task has completed and the future has
\* been polled, the future has resolved, signal or not.
C22_ResolvesWhenTasksComplete ==
    (tphase \in {"waiting", "select", "resolved"} /\ AllFinished /\ tpolled) =>
        tphase = "resolved"

C35_AdmissionKeepsInFlight ==
    [][policy = "parallel" =>
        /\ passed' # passed => (Len(running) > 0 /\ running[1] = None)
        /\ cancelled' = cancelled]_vars

\* C36: in the parallel run loop `count` is the number of occupied slots of
\* `running`, and `running` has as many slots as the configured maximum.
C36_CountIsOccupiedSlots ==
    policy = "parallel" =>
        /\ count = InFlight
        /\ Len(running) = max_parallel

C32_IdleWorkerExits ==
    \A w \in Workers :
        (/\ wrecv[w] = "disconnected"
         /\ \A j \in Jobs : jobs[j].owner = w => jobs[j].st \in {"ok", "err"})
            => wpc[w] = "exited"

C37_OnlyOwnDevice ==
    \A k \in 1..Len(subscriptions) :
        \A n \in 1..Len(zrecv[k]) : zrecv[k][n] = subscriptions[k]

====
